---- MODULE Spec2Model ----
(***************************************************************************)
(* AgroData irrigation dashboard (src/app.py).                             *)
(*                                                                         *)
(* One Streamlit session: every action is one complete run of the script   *)
(* (login gate, logout button, data loading, period filter, KPIs and the   *)
(* rule based recommendation).                                             *)
(*                                                                         *)
(* Units.  lamina_cm is held in tenths of a centimetre and chuva_mm in     *)
(* tenths of a millimetre, so 6.0 cm = 60, 9.5 cm = 95, 10 mm = 100.       *)
(* vazao_m3h and energia_kwh are whole units.  Timestamps are whole hours. *)
(* Ratios (mean, efficiency) are exact fractions <<numerator,denominator>>;*)
(* the absent value None of Python is the empty tuple.  The inputs are     *)
(* chosen so that no efficiency ratio sits exactly on 1.15 times the       *)
(* baseline, where binary floating point and exact arithmetic may differ.  *)
(***************************************************************************)
EXTENDS Integers, Sequences, FiniteSets, TLC

VARIABLES
    settings,       \* get_settings(): [user_ok, pass_ok, evaluator]
    data_csv,       \* data/dados_irrigacao.csv, or NoFile
    rng_dados,      \* the frame the seeded generator yields when there is no file
    session_state,  \* st.session_state: a function on the keys that are set
    access_log,     \* logs/access_log.csv as a sequence of lines; <<>> = no file
    user,           \* value of the "Usuario" text input seen by the last run
    password,       \* value of the "Senha" text input seen by the last run
    submit,         \* value of the "Entrar" form button in the last run
    sair,           \* value of the "Sair" button in the last run
    periodo,        \* value of the "Periodo" selectbox
    rerun,          \* st.rerun() was called: the script is about to run again
    tela,           \* what the last run put on the page
    df,             \* script global df of the last run
    df_f,           \* script global df_f of the last run
    kpi_input,      \* argument of the call kpis_basicos(...) of the last run
    ia_input,       \* argument of the call recomendacao_ia(...) of the last run
    k,              \* script global k
    nivel,          \* script global nivel
    mensagens       \* script global mensagens

vars == <<settings, data_csv, rng_dados, session_state, access_log, user,
          password, submit, sair, periodo, rerun, tela, df, df_f, kpi_input,
          ia_input, k, nivel, mensagens>>

(***************************************************************************)
(* Bounds of the model                                                     *)
(***************************************************************************)
MaxLog == 4        \* lines of the access log (header included)
MaxStrLen == 2     \* characters typed in a login field
MaxOld == 11       \* rows of the older block of a generated series

(***************************************************************************)
(* Program constants                                                       *)
(***************************************************************************)
None == <<>>
NaT == -1
CHUVA_LIMITE == 100
LAMINA_ALTA == 95
LAMINA_BAIXA == 60
MIN_LIGADA == 10
FATOR_NUM == 115
FATOR_DEN == 100
H6 == 6
H24 == 24
D3 == 72
D7 == 168

(***************************************************************************)
(* Column helpers (pandas)                                                 *)
(***************************************************************************)
RECURSIVE Soma(_, _)
Soma(d, col) == IF d = <<>> THEN 0 ELSE d[1][col] + Soma(Tail(d), col)

RECURSIVE MaxTs(_)
MaxTs(d) ==
    IF Len(d) = 1 THEN d[1].timestamp
    ELSE LET m == MaxTs(Tail(d))
         IN IF d[1].timestamp > m THEN d[1].timestamp ELSE m

Desde(d, t) == SelectSeq(d, LAMBDA r : r.timestamp >= t)

Ligada(d) == SelectSeq(d, LAMBDA r : r.bomba_ligada = 1)

DropNaT(d) == SelectSeq(d, LAMBDA r : r.timestamp # NaT)

RECURSIVE Insere(_, _)
Insere(r, s) ==
    IF s = <<>> THEN <<r>>
    ELSE IF s[Len(s)].timestamp <= r.timestamp THEN Append(s, r)
    ELSE Append(Insere(r, SubSeq(s, 1, Len(s) - 1)), s[Len(s)])

RECURSIVE SortTs(_)
SortTs(d) ==
    IF d = <<>> THEN <<>>
    ELSE Insere(d[Len(d)], SortTs(SubSeq(d, 1, Len(d) - 1)))

(***************************************************************************)
(* Number formatting of the f-strings: the digits that are printed.        *)
(***************************************************************************)
Fmt1(x) == <<x \div 10, x % 10>>

Fmt3(r) ==
    LET n == 1000 * r[1]
        q == n \div r[2]
        m == n % r[2]
        v == IF 2 * m > r[2] \/ (2 * m = r[2] /\ q % 2 = 1) THEN q + 1 ELSE q
    IN <<v \div 1000, v % 1000>>

(***************************************************************************)
(* kpis_basicos                                                            *)
(***************************************************************************)
\* variant: an undefined efficiency reported as zero
kpis_basicos_zero(d) ==
    LET total_energia == Soma(d, "energia_kwh")
        total_volume == Soma(d, "vazao_m3h")
    IN [lamina_media |-> <<Soma(d, "lamina_cm"), Len(d)>>,
        total_energia |-> total_energia,
        total_volume |-> total_volume,
        eficiencia |-> IF total_volume > 0
                       THEN <<total_energia, total_volume>> ELSE <<0, 1>>,
        horas_bomba |-> Soma(d, "bomba_ligada"),
        chuva_24h |-> Soma(Desde(d, MaxTs(d) - H24), "chuva_mm")]

kpis_basicos(d) ==
    LET total_energia == Soma(d, "energia_kwh")
        total_volume == Soma(d, "vazao_m3h")
    IN [lamina_media |-> <<Soma(d, "lamina_cm"), Len(d)>>,
        total_energia |-> total_energia,
        total_volume |-> total_volume,
        eficiencia |-> IF total_volume > 0
                       THEN <<total_energia, total_volume>> ELSE None,
        horas_bomba |-> Soma(d, "bomba_ligada"),
        chuva_24h |-> Soma(Desde(d, MaxTs(d) - H24), "chuva_mm")]

(***************************************************************************)
(* recomendacao_ia                                                         *)
(***************************************************************************)
chuva_24h(d) == Soma(Desde(d, MaxTs(d) - H24), "chuva_mm")

lamina_atual(d) == d[Len(d)].lamina_cm

eficiencia_6h(d) ==
    LET ult_6h == Desde(d, MaxTs(d) - H6)
        energia_6h == Soma(ult_6h, "energia_kwh")
        volume_6h == Soma(ult_6h, "vazao_m3h")
    IN IF volume_6h > 0 THEN <<energia_6h, volume_6h>> ELSE None

\* variant: ten pump-on rows already give a baseline
base_ef_ge(d) ==
    LET df_ligada == Ligada(d)
    IN IF Len(df_ligada) >= MIN_LIGADA /\ Soma(df_ligada, "vazao_m3h") > 0
       THEN <<Soma(df_ligada, "energia_kwh"), Soma(df_ligada, "vazao_m3h")>>
       ELSE None

base_ef(d) ==
    LET df_ligada == Ligada(d)
    IN IF Len(df_ligada) > MIN_LIGADA /\ Soma(df_ligada, "vazao_m3h") > 0
       THEN <<Soma(df_ligada, "energia_kwh"), Soma(df_ligada, "vazao_m3h")>>
       ELSE None

\* eficiencia_6h > base_ef * 1.15, on fractions with positive denominators
AcimaDoBaseline(e, b) == e[1] * b[2] * FATOR_DEN > b[1] * e[2] * FATOR_NUM

regra_chuva(r, chuva) ==
    IF chuva >= CHUVA_LIMITE
    THEN [nivel |-> "warning",
          mensagens |-> Append(r.mensagens, <<"chuva", Fmt1(chuva)>>)]
    ELSE r

\* variant: exclusive upper boundary
regra_lamina_alta_estrita(r, lamina) ==
    IF lamina > LAMINA_ALTA
    THEN [nivel |-> "warning",
          mensagens |-> Append(r.mensagens, <<"lamina_alta", Fmt1(lamina)>>)]
    ELSE r

\* variant: elif, the rule is skipped once an earlier rule has fired
regra_lamina_alta_elif(r, lamina) ==
    IF r.mensagens = <<>> /\ lamina >= LAMINA_ALTA
    THEN [nivel |-> "warning",
          mensagens |-> Append(r.mensagens, <<"lamina_alta", Fmt1(lamina)>>)]
    ELSE r

regra_lamina_alta(r, lamina) ==
    IF lamina >= LAMINA_ALTA
    THEN [nivel |-> "warning",
          mensagens |-> Append(r.mensagens, <<"lamina_alta", Fmt1(lamina)>>)]
    ELSE r

regra_lamina_baixa(r, lamina) ==
    IF lamina <= LAMINA_BAIXA
    THEN [nivel |-> "error",
          mensagens |-> Append(r.mensagens, <<"lamina_baixa", Fmt1(lamina)>>)]
    ELSE r

\* variant: any efficiency above the baseline, without the 15% margin
regra_eficiencia_semMargem(r, e, b) ==
    IF e # None /\ b # None /\ e[1] * b[2] > b[1] * e[2]
    THEN [nivel |-> "warning",
          mensagens |-> Append(r.mensagens, <<"eficiencia", Fmt3(e), Fmt3(b)>>)]
    ELSE r

regra_eficiencia(r, e, b) ==
    IF e # None /\ b # None /\ AcimaDoBaseline(e, b)
    THEN [nivel |-> "warning",
          mensagens |-> Append(r.mensagens, <<"eficiencia", Fmt3(e), Fmt3(b)>>)]
    ELSE r

\* variant: the fallback message is appended to whatever was collected
regra_padrao_sempre(r) ==
    IF r.mensagens = <<>>
    THEN [nivel |-> "success", mensagens |-> <<<<"padrao">>>>]
    ELSE [nivel |-> r.nivel, mensagens |-> Append(r.mensagens, <<"padrao">>)]

regra_padrao(r) ==
    IF r.mensagens = <<>>
    THEN [nivel |-> "success", mensagens |-> <<<<"padrao">>>>]
    ELSE r

recomendacao_ia(d) ==
    LET r0 == [nivel |-> "info", mensagens |-> <<>>]
        r1 == regra_chuva(r0, chuva_24h(d))
        r2 == regra_lamina_alta(r1, lamina_atual(d))
        r3 == regra_lamina_baixa(r2, lamina_atual(d))
        r4 == regra_eficiencia(r3, eficiencia_6h(d), base_ef(d))
    IN regra_padrao(r4)

(***************************************************************************)
(* Strings of the login form, as sequences of characters                   *)
(***************************************************************************)
\* "U+00E9" stands for one character outside ASCII
Chars == {"a", " ", "U+00E9"}
Ascii == {"a", " "}
Whitespace == {" "}

IsAscii(s) == \A i \in 1..Len(s) : s[i] \in Ascii

RECURSIVE LStrip(_)
LStrip(s) == IF s # <<>> /\ s[1] \in Whitespace THEN LStrip(Tail(s)) ELSE s

RECURSIVE RStrip(_)
RStrip(s) ==
    IF s # <<>> /\ s[Len(s)] \in Whitespace
    THEN RStrip(SubSeq(s, 1, Len(s) - 1)) ELSE s

Strip(s) == LStrip(RStrip(s))

\* hmac.compare_digest on str: TypeError unless both are ASCII
CompareRaises(a, b) == ~IsAscii(a) \/ ~IsAscii(b)

(***************************************************************************)
(* st.session_state                                                        *)
(***************************************************************************)
Get(s, key, default) == IF key \in DOMAIN s THEN s[key] ELSE default

Put(s, key, v) == [x \in DOMAIN s \cup {key} |-> IF x = key THEN v ELSE s[x]]

Pop(s, key) == [x \in DOMAIN s \ {key} |-> s[x]]

EmptySession == [x \in {} |-> FALSE]

(***************************************************************************)
(* log_access_event: header on creation, then one appended line.  The      *)
(* timestamp column (wall clock) takes no part in any decision and is not  *)
(* kept.                                                                   *)
(***************************************************************************)
Header == [event |-> "event", user |-> <<"user">>, evaluator |-> "evaluator"]

log_access_event(log, event, username, evaluator) ==
    LET file == IF log = <<>> THEN <<Header>> ELSE log
    IN Append(file, [event |-> event, user |-> username, evaluator |-> evaluator])

\* variant: the password is not compared
credenciais_ok_semSenha(cfg, u, p) == Strip(u) = cfg.user_ok

\* ok_user and ok_pass, once neither comparison has raised
credenciais_ok(cfg, u, p) == Strip(u) = cfg.user_ok /\ p = cfg.pass_ok

(***************************************************************************)
(* check_login: the value returned and the effects of one call             *)
(***************************************************************************)
check_login(s, log, cfg, u, p, sub) ==
    IF Get(s, "authenticated", FALSE)
    THEN [ret |-> TRUE, ss |-> s, log |-> log, rerun |-> FALSE, tela |-> "nada"]
    ELSE IF ~sub
    THEN [ret |-> FALSE, ss |-> s, log |-> log, rerun |-> FALSE, tela |-> "login"]
    ELSE IF CompareRaises(Strip(u), cfg.user_ok) \/ CompareRaises(p, cfg.pass_ok)
    THEN [ret |-> FALSE, ss |-> s, log |-> log, rerun |-> FALSE,
          tela |-> "login_excecao"]
    ELSE IF credenciais_ok(cfg, u, p)
    THEN LET s1 == Put(Put(Put(s, "authenticated", TRUE),
                           "login_user", cfg.user_ok),
                       "evaluator_name", cfg.evaluator)
             first == ~Get(s1, "logged_access", FALSE)
         IN [ret |-> FALSE,
             ss |-> IF first THEN Put(s1, "logged_access", TRUE) ELSE s1,
             log |-> IF first
                     THEN log_access_event(log, "LOGIN_SUCCESS",
                                           cfg.user_ok, cfg.evaluator)
                     ELSE log,
             rerun |-> TRUE, tela |-> "login"]
    ELSE [ret |-> FALSE, ss |-> Put(s, "authenticated", FALSE), log |-> log,
          rerun |-> FALSE, tela |-> "login_invalido"]

(***************************************************************************)
(* The "Sair" branch of the sidebar                                        *)
(***************************************************************************)
\* variant: "logged_access" is left set
logout_semReset(s) ==
    Pop(Pop(Put(s, "authenticated", FALSE), "login_user"), "evaluator_name")

logout(s) ==
    Pop(Pop(Put(Put(s, "authenticated", FALSE), "logged_access", FALSE),
            "login_user"), "evaluator_name")

(***************************************************************************)
(* carregar_dados                                                          *)
(***************************************************************************)
TemDataOuHora(c) == c \in {"Data", "hora_leitura"}

carregar_dados(csv, gerado) ==
    IF csv.existe
    THEN IF csv.coluna_tempo = "timestamp" \/ TemDataOuHora(csv.coluna_tempo)
         THEN [erro |-> FALSE, df |-> SortTs(DropNaT(csv.linhas))]
         ELSE [erro |-> TRUE, df |-> <<>>]
    ELSE [erro |-> FALSE, df |-> gerado]

(***************************************************************************)
(* The period filter of the sidebar                                        *)
(***************************************************************************)
\* the option labels, written without their accents
Periodos == {"Ultimas 24h", "Ultimos 3 dias", "Ultimos 7 dias", "Tudo"}
PeriodoPadrao == "Ultimos 7 dias"

filtrar(d, per) ==
    IF per = "Ultimas 24h" THEN Desde(d, MaxTs(d) - H24)
    ELSE IF per = "Ultimos 3 dias" THEN Desde(d, MaxTs(d) - D3)
    ELSE IF per = "Ultimos 7 dias" THEN Desde(d, MaxTs(d) - D7)
    ELSE d

\* the frames handed to kpis_basicos and to recomendacao_ia in tab 0
ArgKpis(d, d_f) == d_f
ArgRecomendacao(d, d_f) == d_f

(***************************************************************************)
(* One run of the script with the given widget values                      *)
(***************************************************************************)
LoginTelas == {"login", "login_invalido", "login_excecao"}
DashTelas == {"cabecalho", "dashboard", "dashboard_excecao"}

SemPainel ==
    /\ df' = <<>> /\ df_f' = <<>> /\ kpi_input' = <<>> /\ ia_input' = <<>>
    /\ k' = <<>> /\ nivel' = "" /\ mensagens' = <<>>

Script(u, p, sub, clk, per) ==
    LET c == check_login(session_state, access_log, settings, u, p, sub)
    IN /\ UNCHANGED <<settings, data_csv, rng_dados>>
       /\ submit' = sub
       /\ IF ~c.ret
          THEN \* login page, then st.stop(), st.rerun() or an exception
               /\ session_state' = c.ss
               /\ access_log' = c.log
               /\ rerun' = c.rerun
               /\ tela' = c.tela
               /\ user' = u /\ password' = p
               /\ sair' = FALSE
               /\ periodo' = PeriodoPadrao
               /\ SemPainel
          ELSE LET evaluator_name == Get(session_state, "evaluator_name", "Avaliador")
                   login_user == Get(session_state, "login_user", <<"usuario">>)
               IN /\ user' = <<>> /\ password' = <<>>
                  /\ sair' = clk
                  /\ IF clk
                     THEN /\ access_log' = log_access_event(access_log, "LOGOUT",
                                                            login_user, evaluator_name)
                          /\ session_state' = logout(session_state)
                          /\ rerun' = TRUE
                          /\ tela' = "cabecalho"
                          /\ periodo' = PeriodoPadrao
                          /\ SemPainel
                     ELSE LET l == carregar_dados(data_csv, rng_dados)
                          IN /\ UNCHANGED <<session_state, access_log>>
                             /\ rerun' = FALSE
                             /\ IF l.erro
                                THEN /\ tela' = "dashboard_excecao"
                                     /\ periodo' = PeriodoPadrao
                                     /\ SemPainel
                                ELSE IF l.df = <<>>
                                THEN \* df.iloc[-1] of an empty frame
                                     /\ tela' = "dashboard_excecao"
                                     /\ periodo' = per
                                     /\ SemPainel
                                ELSE LET d_f == filtrar(l.df, per)
                                         r == recomendacao_ia(ArgRecomendacao(l.df, d_f))
                                     IN /\ tela' = "dashboard"
                                        /\ periodo' = per
                                        /\ df' = l.df
                                        /\ df_f' = d_f
                                        /\ kpi_input' = ArgKpis(l.df, d_f)
                                        /\ ia_input' = ArgRecomendacao(l.df, d_f)
                                        /\ k' = kpis_basicos(ArgKpis(l.df, d_f))
                                        /\ nivel' = r.nivel
                                        /\ mensagens' = r.mensagens

(***************************************************************************)
(* Actions: what starts a run                                              *)
(***************************************************************************)
Strings == UNION {[1..n -> Chars] : n \in 0..MaxStrLen}
Senhas == {<<>>, <<"a">>, <<"a", " ">>, <<"U+00E9">>}

\* st.rerun(), or a rerun with the widgets as they are
Rerun == Script(user, password, FALSE, FALSE, periodo)

Entrar(u, p) ==
    /\ ~rerun /\ tela \in LoginTelas
    /\ Len(access_log) < MaxLog
    /\ Script(u, p, TRUE, FALSE, periodo)

Sair ==
    /\ ~rerun /\ tela \in DashTelas
    /\ Len(access_log) < MaxLog
    /\ Script(user, password, FALSE, TRUE, periodo)

SelecionarPeriodo(per) ==
    /\ ~rerun /\ tela = "dashboard" /\ per # periodo
    /\ Script(user, password, FALSE, FALSE, per)

Next ==
    \/ Rerun
    \/ \E u \in Strings, p \in Senhas : Entrar(u, p)
    \/ Sair
    \/ \E per \in Periodos : SelecionarPeriodo(per)

(***************************************************************************)
(* Inputs: settings, the CSV file and the generated frame                  *)
(***************************************************************************)
Configs ==
    {[user_ok |-> <<"a">>, pass_ok |-> pw, evaluator |-> "Avaliador"] :
        pw \in {<<"a">>, <<"a", " ">>}}

Linha(ts, lam, vaz, en, ch, b) ==
    [timestamp |-> ts, lamina_cm |-> lam, vazao_m3h |-> vaz,
     energia_kwh |-> en, chuva_mm |-> ch, bomba_ligada |-> b]

Bloco(n, row) == [i \in 1..n |-> row]

Arquivo(col, rows) == [existe |-> TRUE, coluna_tempo |-> col, linhas |-> rows]

NoFile == [existe |-> FALSE, coluna_tempo |-> "", linhas |-> <<>>]

TsAgora == {169}
TsAntigos == {0, 144, 162, 163}

\* an older block of equal rows followed by the latest row
LinhasAntigas ==
    {Linha(ts, 70, vaz, 20, ch, b) :
        ts \in TsAntigos, vaz \in {0, 50}, ch \in {0, 10}, b \in {0, 1}}

LinhasAtuais ==
    {Linha(ts, lam, vaz, en, ch, b) :
        ts \in TsAgora, lam \in {60, 65, 90, 95}, vaz \in {0, 50},
        en \in {20, 30}, ch \in {0, 95, 100}, b \in {0, 1}}

Tamanhos == {1, 2} \cup ((MaxOld - 2)..MaxOld)

Series ==
    {Bloco(n, old) \o <<new>> :
        n \in Tamanhos, old \in LinhasAntigas, new \in LinhasAtuais}
    \cup {<<new>> : new \in LinhasAtuais}

ArquivosIA == {Arquivo("timestamp", rows) : rows \in Series}

\* files of the session model: history beyond each period, rows out of
\* order, unparseable timestamps, other column names, no usable row
Historico(ts, lam, en) ==
    Bloco(MaxOld, Linha(ts, 70, 50, 20, 0, 1)) \o <<Linha(169, lam, 50, en, 100, 1)>>

ArquivosSessao ==
    {Arquivo("timestamp", Historico(ts, 60, 30)) : ts \in {0, 96, 144}}
    \cup {Arquivo("timestamp", Historico(163, 65, 20))}
    \cup {Arquivo(col, <<Linha(169, 95, 50, 30, 0, 1), Linha(NaT, 60, 0, 0, 0, 0),
                         Linha(100, 60, 0, 20, 100, 0)>>) :
            col \in {"timestamp", "Data", "t"}}
    \cup {Arquivo("timestamp", <<Linha(NaT, 70, 50, 20, 0, 1)>>)}

\* frames of gerar_dados_exemplo: hourly rows ending now, depth within the clip
Gerados ==
    {[i \in 1..(MaxOld + 1) |->
        Linha(169 - (MaxOld + 1) + i, IF i = 1 THEN 75 ELSE lam, 50, 30, 0, 1)] :
        lam \in {45, 120}}

GeradoFixo == CHOOSE g \in Gerados : TRUE

(***************************************************************************)
(* Specifications                                                          *)
(***************************************************************************)
SemRun ==
    /\ user = <<>> /\ password = <<>> /\ submit = FALSE /\ sair = FALSE
    /\ periodo = PeriodoPadrao
    /\ df = <<>> /\ df_f = <<>> /\ kpi_input = <<>> /\ ia_input = <<>>
    /\ k = <<>> /\ nivel = "" /\ mensagens = <<>>

\* a new browser session: nothing has run yet
Init ==
    /\ settings \in Configs
    /\ \/ data_csv \in ArquivosSessao /\ rng_dados = GeradoFixo
       \/ data_csv = NoFile /\ rng_dados \in Gerados
    /\ session_state = EmptySession
    /\ access_log \in {<<>>, <<Header>>}
    /\ rerun = TRUE
    /\ tela = "nada"
    /\ SemRun

Spec == Init /\ [][Next]_vars

\* a session just after a successful login (the state check_login leaves
\* behind when it calls st.rerun()), over the large family of files
InitIA ==
    /\ settings = [user_ok |-> <<"a">>, pass_ok |-> <<"a">>, evaluator |-> "Avaliador"]
    /\ data_csv \in ArquivosIA
    /\ rng_dados = GeradoFixo
    /\ session_state = check_login(EmptySession, <<>>, settings, <<"a">>, <<"a">>, TRUE).ss
    /\ access_log = check_login(EmptySession, <<>>, settings, <<"a">>, <<"a">>, TRUE).log
    /\ rerun = TRUE
    /\ tela = "login"
    /\ user = <<"a">> /\ password = <<"a">> /\ submit = TRUE /\ sair = FALSE
    /\ periodo = PeriodoPadrao
    /\ df = <<>> /\ df_f = <<>> /\ kpi_input = <<>> /\ ia_input = <<>>
    /\ k = <<>> /\ nivel = "" /\ mensagens = <<>>

NextIA ==
    \/ Rerun
    \/ \E per \in Periodos : SelecionarPeriodo(per)

SpecIA == InitIA /\ [][NextIA]_vars

(***************************************************************************)
(* Vocabulary of the properties                                            *)
(***************************************************************************)
Painel == tela = "dashboard"

Auth == Get(session_state, "authenticated", FALSE)

Tem(m, tag) == \E i \in 1..Len(m) : m[i][1] = tag

Tags(m) == [i \in 1..Len(m) |-> m[i][1]]

Eventos(log) == SelectSeq(log, LAMBDA r : r.event # "event")

\* the four rule conditions, read off the frame given to recomendacao_ia
CondChuva(d) == chuva_24h(d) >= CHUVA_LIMITE
CondAlta(d) == lamina_atual(d) >= LAMINA_ALTA
CondBaixa(d) == lamina_atual(d) <= LAMINA_BAIXA
NLigada(d) == Cardinality({i \in 1..Len(d) : d[i].bomba_ligada = 1})
BaselinePresente(d) ==
    NLigada(d) > MIN_LIGADA /\ Soma(Ligada(d), "vazao_m3h") > 0
CondEficiencia(d) ==
    /\ eficiencia_6h(d) # None
    /\ BaselinePresente(d)
    /\ AcimaDoBaseline(eficiencia_6h(d),
                       <<Soma(Ligada(d), "energia_kwh"), Soma(Ligada(d), "vazao_m3h")>>)

(***************************************************************************)
(* C1: whenever the depth of the last row is <= 6.0 the severity is        *)
(* "error", whatever the other rules do; in general the severity is        *)
(* "error" if rule 3 fired, else "warning" if rule 1, 2 or 4 fired, else   *)
(* "success".                                                              *)
(***************************************************************************)
C1_SeverityPolicy ==
    Painel =>
        nivel = IF CondBaixa(ia_input) THEN "error"
                ELSE IF CondChuva(ia_input) \/ CondAlta(ia_input)
                        \/ CondEficiencia(ia_input) THEN "warning"
                ELSE "success"

(***************************************************************************)
(* C2: for every period and on every render the frame handed to            *)
(* recomendacao_ia is the full loaded series, and only kpis_basicos        *)
(* receives the period-filtered subset.                                    *)
(***************************************************************************)
C2_FullSeriesToEvaluator ==
    Painel => ia_input = df /\ kpi_input = df_f

(***************************************************************************)
(* C3: the dashboard part of the script runs only in a run that starts     *)
(* with session_state["authenticated"] true; "authenticated" becomes true  *)
(* only by a form submission whose stripped user name and whose password   *)
(* equal the configured credentials; a submission with other credentials   *)
(* sets it to false (and one whose comparison raises leaves it not true);  *)
(* after "Sair" it is false and the login page comes next.                 *)
(***************************************************************************)
C3_Step ==
    /\ tela' \in DashTelas => Auth
    /\ (~Auth /\ Auth') =>
           /\ submit'
           /\ Strip(user') = settings.user_ok
           /\ password' = settings.pass_ok
    /\ tela' = "login_invalido" =>
           /\ "authenticated" \in DOMAIN session_state'
           /\ session_state'["authenticated"] = FALSE
    /\ (submit' /\ ~Auth
          /\ ~(Strip(user') = settings.user_ok /\ password' = settings.pass_ok)) =>
           ~Auth' /\ tela' \in {"login_invalido", "login_excecao"}
    /\ sair' =>
           /\ "authenticated" \in DOMAIN session_state'
           /\ session_state'["authenticated"] = FALSE
           /\ rerun'
    /\ sair => tela' = "login"

C3_LoginGate == [][C3_Step]_vars

\* a login refused after a logout, in a session that had been logged in
C3_Witness ==
    /\ tela = "login_invalido"
    /\ ~Auth
    /\ Len(Eventos(access_log)) = 2

(***************************************************************************)
(* C9: the access events of the session alternate LOGIN_SUCCESS, LOGOUT,   *)
(* LOGIN_SUCCESS, ... starting with LOGIN_SUCCESS; the session is          *)
(* authenticated exactly when the last event is a LOGIN_SUCCESS (one row   *)
(* per successful login, none on a rerun), a failed login writes nothing   *)
(* and LOGOUT is written only by a run that starts authenticated.          *)
(***************************************************************************)
C9_Alterna ==
    LET e == Eventos(access_log)
    IN /\ \A i \in 1..Len(e) :
            e[i].event = IF i % 2 = 1 THEN "LOGIN_SUCCESS" ELSE "LOGOUT"
       /\ Auth <=> Len(e) % 2 = 1

C9_Step ==
    /\ tela' \in {"login_invalido", "login_excecao"} => access_log' = access_log
    /\ (~sair' /\ Auth) => access_log' = access_log
    /\ (~Auth /\ Auth') =>
           Len(Eventos(access_log')) = Len(Eventos(access_log)) + 1
    /\ Len(Eventos(access_log')) > Len(Eventos(access_log)) =>
           \/ ~Auth /\ Auth'
           \/ Auth /\ sair' /\ ~Auth'

C9_LogAlternates == []C9_Alterna /\ [][C9_Step]_vars

\* logged in for the second time: LOGIN_SUCCESS, LOGOUT, LOGIN_SUCCESS
C9_Witness ==
    /\ Painel
    /\ Len(Eventos(access_log)) = 3

(***************************************************************************)
(* C4: the severity is "success" if and only if the list has exactly one   *)
(* message and no threshold rule fired (rain below 10 mm, depth strictly   *)
(* between 6.0 and 9.5, no efficiency breach); the message is then the     *)
(* "within norms" fallback.                                                *)
(***************************************************************************)
C4_SuccessIff ==
    Painel =>
        /\ nivel = "success" <=>
               /\ Len(mensagens) = 1
               /\ chuva_24h(ia_input) < CHUVA_LIMITE
               /\ lamina_atual(ia_input) > LAMINA_BAIXA
               /\ lamina_atual(ia_input) < LAMINA_ALTA
               /\ ~CondEficiencia(ia_input)
        /\ nivel = "success" => mensagens = <<<<"padrao">>>>

\* success although both efficiency values exist: the rule ran and held back
C4_Witness ==
    /\ Painel
    /\ nivel = "success"
    /\ eficiencia_6h(ia_input) # None
    /\ BaselinePresente(ia_input)

(***************************************************************************)
(* C5: the rules are evaluated in the order rainfall, high depth, low      *)
(* depth, efficiency, and every rule whose condition holds contributes one *)
(* message, in that order; rain >= 10 mm with depth >= 9.5 gives the       *)
(* rainfall message followed by the high-depth message, severity           *)
(* "warning".                                                              *)
(***************************************************************************)
Esperadas(d) ==
    SelectSeq(<<"chuva", "lamina_alta", "lamina_baixa", "eficiencia">>,
              LAMBDA t : \/ t = "chuva" /\ CondChuva(d)
                         \/ t = "lamina_alta" /\ CondAlta(d)
                         \/ t = "lamina_baixa" /\ CondBaixa(d)
                         \/ t = "eficiencia" /\ CondEficiencia(d))

C5_OrderedAdditive ==
    Painel =>
        /\ Esperadas(ia_input) # <<>> => Tags(mensagens) = Esperadas(ia_input)
        /\ (CondChuva(ia_input) /\ CondAlta(ia_input)) =>
               /\ Len(mensagens) >= 2
               /\ mensagens[1][1] = "chuva"
               /\ mensagens[2][1] = "lamina_alta"
               /\ nivel = "warning"

C5_Witness ==
    /\ Painel
    /\ CondChuva(ia_input) /\ CondAlta(ia_input)
    /\ Tags(mensagens) = <<"chuva", "lamina_alta", "eficiencia">>

(***************************************************************************)
(* C6: for a non-empty series with non-negative flows kpis_basicos         *)
(* returns, its "eficiencia" is None if and only if the flow sum is 0 and  *)
(* otherwise is total_energia / total_volume; an absent efficiency is      *)
(* never a number.                                                         *)
(***************************************************************************)
FluxoNaoNegativo(d) == \A i \in 1..Len(d) : d[i].vazao_m3h >= 0

C6_EfficiencyAbsent ==
    /\ ~rerun => Painel
    /\ (Painel /\ FluxoNaoNegativo(kpi_input)) =>
           /\ k.total_volume = Soma(kpi_input, "vazao_m3h")
           /\ k.total_energia = Soma(kpi_input, "energia_kwh")
           /\ k.eficiencia = None <=> k.total_volume = 0
           /\ k.total_volume # 0 =>
                  k.eficiencia = <<k.total_energia, k.total_volume>>
           /\ k.total_volume = 0 => Len(k.eficiencia) = 0

\* energy was spent and nothing was pumped
C6_Witness ==
    /\ Painel
    /\ Len(kpi_input) > 1
    /\ k.total_volume = 0
    /\ k.total_energia > 0
    /\ k.eficiencia = None

(***************************************************************************)
(* C7: the baseline is present if and only if more than 10 rows have the   *)
(* pump on and their flow sum is > 0; with exactly 10 such rows, fewer, or *)
(* a zero flow sum it is absent, the efficiency rule does not fire and the *)
(* call still returns a result.                                            *)
(***************************************************************************)
C7_Baseline ==
    Painel =>
        /\ base_ef(ia_input) # None <=> BaselinePresente(ia_input)
        /\ ~BaselinePresente(ia_input) =>
               /\ ~Tem(mensagens, "eficiencia")
               /\ Len(mensagens) >= 1
               /\ nivel \in {"success", "warning", "error"}

\* exactly ten pump-on rows that pumped, and a last-6h efficiency to compare
C7_Witness ==
    /\ Painel
    /\ NLigada(ia_input) = MIN_LIGADA
    /\ Soma(Ligada(ia_input), "vazao_m3h") > 0
    /\ eficiencia_6h(ia_input) # None
    /\ ~Tem(mensagens, "eficiencia")

(***************************************************************************)
(* C8: the efficiency message is in the result if and only if the last-6h  *)
(* efficiency and the baseline are both present and the former is strictly *)
(* greater than 1.15 times the latter; so rain >= 10 mm, depth strictly    *)
(* between 6.0 and 9.5 and no efficiency breach give exactly the rainfall  *)
(* message with severity "warning".                                        *)
(***************************************************************************)
C8_EfficiencyRule ==
    Painel =>
        /\ Tem(mensagens, "eficiencia") <=> CondEficiencia(ia_input)
        /\ (/\ CondChuva(ia_input)
            /\ ~CondAlta(ia_input) /\ ~CondBaixa(ia_input)
            /\ ~CondEficiencia(ia_input)) =>
               /\ Tags(mensagens) = <<"chuva">>
               /\ nivel = "warning"

\* both values present, the last 6h above the baseline but within the margin
C8_Witness ==
    /\ Painel
    /\ CondChuva(ia_input)
    /\ ~CondAlta(ia_input) /\ ~CondBaixa(ia_input)
    /\ eficiencia_6h(ia_input) # None /\ BaselinePresente(ia_input)
    /\ eficiencia_6h(ia_input)[1] * base_ef(ia_input)[2]
           > base_ef(ia_input)[1] * eficiencia_6h(ia_input)[2]
    /\ Tags(mensagens) = <<"chuva">>

(***************************************************************************)
(* C10: the message list has between 1 and 3 elements; the high-depth and  *)
(* the low-depth message are never both present; the fallback message is   *)
(* present only as the sole element.                                       *)
(***************************************************************************)
C10_MessageCount ==
    Painel =>
        /\ Len(mensagens) >= 1 /\ Len(mensagens) <= 3
        /\ ~(Tem(mensagens, "lamina_alta") /\ Tem(mensagens, "lamina_baixa"))
        /\ Tem(mensagens, "padrao") => Len(mensagens) = 1

C10_Witness ==
    /\ Painel
    /\ Tags(mensagens) = <<"chuva", "lamina_baixa", "eficiencia">>

====
